---- MODULE Spec2Model ----
(***************************************************************************)
(* Model of util/dir (src/util/dir/src/lib.rs): resolution of the Parity   *)
(* data directories, their creation on disk, and the derived key paths.    *)
(* Paths are strings; the file system is the set of directories that       *)
(* exist; the OS (application-directory query, home directory, mkdir       *)
(* failures) is the environment.                                           *)
(***************************************************************************)
EXTENDS Naturals, Sequences, FiniteSets, TLC

VARIABLES
    profile,     \* the platform profile compiled in: "macos", "windows", "unix"
    homeDir,     \* env::home_dir(): a path, or NoHome
    appRoot,     \* per AppDataType: does the OS have an application root for it
    pc,          \* "start" (no Directories yet), "ready", "aborted" (panicked)
    dirs,        \* the Directories value
    ways,        \* per field of dirs, the directories on the way to it
    fs,          \* the directories that exist
    calls,       \* number of create_dirs calls made
    last         \* the last operation: what was called and what it returned

vars == <<profile, homeDir, appRoot, pc, dirs, ways, fs, calls, last>>

----------------------------------------------------------------------------
(* Bounds *)

\* create_dirs calls in one run
MaxCalls == 2

----------------------------------------------------------------------------
(* Strings *)

StartsAt(s, i, pat) ==
    /\ i + Len(pat) <= Len(s) + 1
    /\ SubSeq(s, i, i + Len(pat) - 1) = pat

\* str::replace: the matches are found from left to right, each search
\* starting after the previous match; what lies between matches is copied,
\* and what was put in is not searched.
RECURSIVE ReplaceFrom(_, _, _, _)
ReplaceFrom(s, i, pat, rep) ==
    LET matches == {j \in i..Len(s) : StartsAt(s, j, pat)}
    IN  IF matches = {}
            THEN SubSeq(s, i, Len(s))
            ELSE LET j == CHOOSE m \in matches : \A k \in matches : m <= k
                 IN  SubSeq(s, i, j - 1) \o rep
                         \o ReplaceFrom(s, j + Len(pat), pat, rep)

Replace(s, pat, rep) == ReplaceFrom(s, 1, pat, rep)

----------------------------------------------------------------------------
(* Platform profiles *)

Profiles == {"macos", "windows", "unix"}

MAIN_SEPARATOR == IF profile = "windows" THEN "\\" ELSE "/"

is_separator(c) == c = "/" \/ (profile = "windows" /\ c = "\\")

\* mutant: the chains template of the other platforms on every platform
CHAINS_PATH_everywhere == "$BASE/chains"

CHAINS_PATH == IF profile = "windows" THEN "$LOCAL/chains" ELSE "$BASE/chains"

CACHE_PATH == IF profile = "windows" THEN "$LOCAL/cache" ELSE "$BASE/cache"

AUTHOR == IF profile = "unix" THEN "parity" ELSE "Parity"

PRODUCT == IF profile = "windows" THEN "Ethereum" ELSE "io.parity.ethereum"

PRODUCT_HYPERVISOR ==
    IF profile = "windows" THEN "EthereumUpdates" ELSE "io.parity.ethereum-updates"

----------------------------------------------------------------------------
(* Environment *)

NoHome == "<no home>"
QueryErr == "<query failed>"

HomeDirs(p) ==
    CASE p = "windows" -> {"C:\\Users\\u"}
      [] p = "macos"   -> {"/Users/u"}
      [] OTHER         -> {"/home/u"}

\* What the OS answers for the roaming data root of an application.
DataRoot(product) ==
    CASE profile = "windows" -> "C:\\Users\\u\\AppData\\Roaming\\Parity\\" \o product
      [] profile = "macos"   -> "/Users/u/Library/Application Support/" \o product
      [] OTHER               -> "/home/u/.local/share/" \o product

\* What the OS answers for the machine-local cache root of an application.
CacheRoot(product) ==
    CASE profile = "windows" -> "C:\\Users\\u\\AppData\\Local\\Parity\\" \o product
      [] profile = "macos"   -> "/Users/u/Library/Caches/" \o product
      [] OTHER               -> "/home/u/.cache/" \o product

AppDataTypes == {"UserData", "UserCache"}

\* get_app_root(data_type, app_info): the root the OS reports for the
\* application, or an error when it has none for that data type
get_app_root(data_type, product) ==
    IF appRoot[data_type]
        THEN IF data_type = "UserData" THEN DataRoot(product) ELSE CacheRoot(product)
        ELSE QueryErr

----------------------------------------------------------------------------
(* helpers *)

\* helpers::replace_home(base, arg): $HOME in the template becomes the home
\* directory, then $BASE becomes base.
replace_home(base, arg) ==
    Replace(Replace(arg, "$HOME", homeDir), "$BASE", base)

\* helpers::replace_home_and_local(base, local, arg): as replace_home, then
\* $LOCAL becomes local.
replace_home_and_local(base, local, arg) ==
    Replace(replace_home(base, arg), "$LOCAL", local)

----------------------------------------------------------------------------
(* Default roots *)

default_data_path ==
    LET root == get_app_root("UserData", PRODUCT)
    IN  IF root # QueryErr THEN root ELSE "$HOME/.parity"

default_local_path ==
    LET root == get_app_root("UserCache", PRODUCT)
    IN  IF root # QueryErr THEN root ELSE "$HOME/.parity"

default_hypervisor_path ==
    LET root == get_app_root("UserData", PRODUCT_HYPERVISOR)
    IN  IF root # QueryErr THEN root ELSE "$HOME/.parity-hypervisor"

----------------------------------------------------------------------------
(* Directories *)

Fields == <<"base", "db", "cache", "keys", "signer", "dapps", "secretstore">>

FieldSet == {Fields[i] : i \in 1..Len(Fields)}

NoDirs == [f \in FieldSet |-> ""]

\* mutant: db is resolved by replace_home, which knows no $LOCAL
DirectoriesDefault_dbWithoutLocal ==
    LET data_dir == default_data_path
        local_dir == default_local_path
    IN  [ base        |-> replace_home(data_dir, "$BASE"),
          db          |-> replace_home(data_dir, CHAINS_PATH),
          cache       |-> replace_home_and_local(data_dir, local_dir, CACHE_PATH),
          keys        |-> replace_home(data_dir, "$BASE/keys"),
          signer      |-> replace_home(data_dir, "$BASE/signer"),
          dapps       |-> replace_home(data_dir, "$BASE/dapps"),
          secretstore |-> replace_home(data_dir, "$BASE/secretstore") ]

\* impl Default for Directories
DirectoriesDefault ==
    LET data_dir == default_data_path
        local_dir == default_local_path
    IN  [ base        |-> replace_home(data_dir, "$BASE"),
          db          |-> replace_home_and_local(data_dir, local_dir, CHAINS_PATH),
          cache       |-> replace_home_and_local(data_dir, local_dir, CACHE_PATH),
          keys        |-> replace_home(data_dir, "$BASE/keys"),
          signer      |-> replace_home(data_dir, "$BASE/signer"),
          dapps       |-> replace_home(data_dir, "$BASE/dapps"),
          secretstore |-> replace_home(data_dir, "$BASE/secretstore") ]

----------------------------------------------------------------------------
(* Paths *)

\* a drive prefix, "C:" (Windows only)
has_prefix(p) == profile = "windows" /\ Len(p) >= 2 /\ SubSeq(p, 2, 2) = ":"

prefix_of(p) == IF has_prefix(p) THEN SubSeq(p, 1, 2) ELSE ""

\* the path has a root: its first character after the prefix is a separator
has_root(p) ==
    LET i == Len(prefix_of(p)) + 1
    IN  i <= Len(p) /\ is_separator(SubSeq(p, i, i))

\* mutant: the path is appended whatever it is
push_append(self, path) ==
    IF self # "" /\ ~is_separator(SubSeq(self, Len(self), Len(self)))
        THEN self \o MAIN_SEPARATOR \o path
        ELSE self \o path

\* PathBuf::push(path): a path with a prefix replaces self, a path with a root
\* replaces all of self but its prefix, and a relative path is appended, after
\* a separator unless self is empty or ends in one (or is a bare drive).
push(self, path) ==
    LET need_sep == /\ self # ""
                    /\ ~is_separator(SubSeq(self, Len(self), Len(self)))
                    /\ ~(has_prefix(self) /\ Len(self) = 2)
    IN  IF has_prefix(path) THEN path
        ELSE IF has_root(path) THEN prefix_of(self) \o path
        ELSE IF need_sep THEN self \o MAIN_SEPARATOR \o path
        ELSE self \o path

\* Directories::ipc_path
ipc_path == push(dirs.base, "ipc")

\* mutant: the two branches the wrong way round
legacy_keys_path_swapped(testnet) ==
    IF testnet THEN push(dirs.base, "keys") ELSE push(dirs.base, "testnet_keys")

\* Directories::legacy_keys_path
legacy_keys_path(testnet) ==
    IF testnet THEN push(dirs.base, "testnet_keys") ELSE push(dirs.base, "keys")

\* Directories::keys_path
keys_path(spec_name) == push(dirs.keys, spec_name)

\* platform::parity_base, on a home directory that was found
parity_base(h) ==
    CASE profile = "macos" ->
            push(push(push(push(h, "Library"), "Application Support"),
                      "io.parity.ethereum"), "keys")
      [] profile = "windows" ->
            push(push(push(push(push(h, "AppData"), "Roaming"), "Parity"),
                      "Ethereum"), "keys")
      [] OTHER ->
            push(push(push(push(h, ".local"), "share"), "io.parity.ethereum"), "keys")

\* platform::geth_base, on a home directory that was found
geth_base(h) ==
    CASE profile = "macos"   -> push(push(h, "Library"), "Ethereum")
      [] profile = "windows" -> push(push(push(h, "AppData"), "Roaming"), "Ethereum")
      [] OTHER               -> push(h, ".ethereum")

\* mutant: without a home directory the root is taken
home_or_root ==
    [kind |-> "value", val |-> IF homeDir = NoHome THEN "/" ELSE homeDir]

\* home(): env::home_dir().expect("Failed to get home dir")
home ==
    IF homeDir = NoHome
        THEN [kind |-> "panic", val |-> "Failed to get home dir"]
        ELSE [kind |-> "value", val |-> homeDir]

\* geth(testnet)
geth(testnet) ==
    IF home.kind = "panic" THEN home
    ELSE LET base == geth_base(home.val)
             net  == IF testnet THEN push(base, "testnet") ELSE base
         IN  [kind |-> "value", val |-> push(net, "keystore")]

\* parity(chain)
parity(chain) ==
    IF home.kind = "panic" THEN home
    ELSE [kind |-> "value", val |-> push(parity_base(home.val), chain)]

----------------------------------------------------------------------------
(* File system *)

\* The directories on the way to p, p included: what create_dir_all(p) makes
\* sure of. The root and a bare drive always exist and are left out.
Ancestors(p) ==
    {p} \cup { SubSeq(p, 1, i - 1) : i \in
                 { j \in 2..Len(p) :
                     /\ is_separator(SubSeq(p, j, j))
                     /\ ~is_separator(SubSeq(p, j - 1, j - 1))
                     /\ ~(has_prefix(p) /\ j = 3) } }

NoFailure == "<none>"

OsErrors == {"EACCES", "ENOSPC"}

\* io::Error::to_string
to_string(e) ==
    CASE e = "EACCES" -> "Permission denied (os error 13)"
      [] e = "ENOSPC" -> "No space left on device (os error 28)"

\* mutant: fs::create_dir on the last directory, which refuses one that exists
create_dir_all_strict(cur, way, failAt) ==
    LET missing == way \ cur
        target  == CHOOSE q \in way : \A r \in way : Len(r) <= Len(q)
    IN  IF failAt \in missing \/ target \in cur
            THEN [ok |-> FALSE, fs |-> cur \cup {q \in missing : Len(q) < Len(failAt)}]
            ELSE [ok |-> TRUE, fs |-> cur \cup missing]

\* fs::create_dir_all(p), p given by the directories on the way to it, where
\* the OS refuses to make failAt: the missing ones are made from the top down,
\* up to the refused one; a directory that exists is no error.
create_dir_all(cur, way, failAt) ==
    LET missing == way \ cur
    IN  IF failAt \in missing
            THEN [ok |-> FALSE, fs |-> cur \cup {q \in missing : Len(q) < Len(failAt)}]
            ELSE [ok |-> TRUE, fs |-> cur \cup missing]

\* mutant: signer follows the first flag and dapps the second
Plan_flagsSwapped(dapps_enabled, signer_enabled, secretstore_enabled) ==
    <<"base", "db", "cache", "keys">>
        \o (IF dapps_enabled THEN <<"signer">> ELSE <<>>)
        \o (IF signer_enabled THEN <<"dapps">> ELSE <<>>)
        \o (IF secretstore_enabled THEN <<"secretstore">> ELSE <<>>)

\* The creations create_dirs goes through, in its order.
Plan(dapps_enabled, signer_enabled, secretstore_enabled) ==
    <<"base", "db", "cache", "keys">>
        \o (IF signer_enabled THEN <<"signer">> ELSE <<>>)
        \o (IF dapps_enabled THEN <<"dapps">> ELSE <<>>)
        \o (IF secretstore_enabled THEN <<"secretstore">> ELSE <<>>)

\* mutant: an error is kept for the end and the later creations still run
RECURSIVE RunPlan_keepsGoing(_, _, _, _, _)
RunPlan_keepsGoing(todo, cur, done, failAt, err) ==
    IF todo = <<>>
        THEN [ok |-> \A i \in 1..Len(done) : ways[done[i]] \subseteq cur,
              msg |-> to_string(err), fs |-> cur, attempted |-> done]
        ELSE LET f == Head(todo)
                 r == create_dir_all(cur, ways[f], failAt)
             IN  RunPlan_keepsGoing(Tail(todo), r.fs, Append(done, f), failAt, err)

\* One creation after the other; `?` returns at the first error.
RECURSIVE RunPlan(_, _, _, _, _)
RunPlan(todo, cur, done, failAt, err) ==
    IF todo = <<>>
        THEN [ok |-> TRUE, msg |-> "", fs |-> cur, attempted |-> done]
        ELSE LET f == Head(todo)
                 r == create_dir_all(cur, ways[f], failAt)
             IN  IF r.ok
                     THEN RunPlan(Tail(todo), r.fs, Append(done, f), failAt, err)
                     ELSE [ok |-> FALSE, msg |-> to_string(err), fs |-> r.fs,
                           attempted |-> Append(done, f)]

\* Directories::create_dirs
create_dirs(dapps_enabled, signer_enabled, secretstore_enabled, failAt, err) ==
    RunPlan(Plan(dapps_enabled, signer_enabled, secretstore_enabled),
            fs, <<>>, failAt, err)

\* every directory a Directories value may ask for
AllPaths == UNION {ways[f] : f \in FieldSet}

----------------------------------------------------------------------------
(* Operations *)

NoOp == [op |-> "none", arg |-> <<>>, kind |-> "none", val |-> "",
         attempted |-> <<>>, before |-> {}]

Returned(op, arg, val) ==
    [op |-> op, arg |-> arg, kind |-> "value", val |-> val,
     attempted |-> <<>>, before |-> {}]

Panicked(op, arg, msg) ==
    [op |-> op, arg |-> arg, kind |-> "panic", val |-> msg,
     attempted |-> <<>>, before |-> {}]

SpecNames == {"foo", "a/b", "/abs", "..", "foo/", "C:x"}

\* templates handed to the helpers: the ones Directories uses, the fallback,
\* one with a token twice, one with a token the helpers do not know, one plain
Templates == {"$BASE/keys", "$LOCAL/chains", "$HOME/.parity",
              "$BASE/$BASE", "$FOO/$BASE/x", "plain"}

Chains == {"ethereum", "test"}

\* What is on disk when the process starts: the home directory, and the
\* directories the OS keeps application roots in.
Present ==
    (IF homeDir = NoHome THEN {} ELSE Ancestors(homeDir))
        \cup (Ancestors(DataRoot("")) \ {DataRoot("")})
        \cup (Ancestors(CacheRoot("")) \ {CacheRoot("")})

Init ==
    /\ profile \in Profiles
    /\ homeDir \in HomeDirs(profile) \cup {NoHome}
    /\ appRoot \in [AppDataTypes -> BOOLEAN]
    /\ pc = "start"
    /\ dirs = NoDirs
    /\ ways = [f \in FieldSet |-> {}]
    /\ fs = Present
    /\ calls = 0
    /\ last = NoOp

\* Directories::default(); the helpers look the home directory up, and without
\* one the process panics.
Default ==
    /\ pc = "start"
    /\ IF homeDir = NoHome
          THEN /\ pc' = "aborted"
               /\ last' = Panicked("default", <<>>, "home_dir")
               /\ UNCHANGED <<dirs, ways>>
          ELSE /\ pc' = "ready"
               /\ dirs' = DirectoriesDefault
               /\ ways' = [f \in FieldSet |-> Ancestors(DirectoriesDefault[f])]
               /\ last' = Returned("default", <<>>, "")
    /\ UNCHANGED <<profile, homeDir, appRoot, fs, calls>>

CreateDirs ==
    /\ pc = "ready"
    /\ calls < MaxCalls
    /\ \E dapps_enabled, signer_enabled, secretstore_enabled \in BOOLEAN :
       \E failAt \in (AllPaths \ fs) \cup {NoFailure} :
       \E err \in OsErrors :
          LET r == create_dirs(dapps_enabled, signer_enabled, secretstore_enabled,
                               failAt, err)
          IN  /\ fs' = r.fs
              /\ last' = [op |-> "create_dirs",
                          arg |-> <<dapps_enabled, signer_enabled, secretstore_enabled>>,
                          kind |-> IF r.ok THEN "Ok" ELSE "Err",
                          val |-> r.msg,
                          attempted |-> r.attempted,
                          before |-> fs]
    /\ calls' = calls + 1
    /\ UNCHANGED <<profile, homeDir, appRoot, pc, dirs, ways>>

KeysPath ==
    /\ pc = "ready"
    /\ \E spec_name \in SpecNames :
          last' = Returned("keys_path", <<spec_name>>, keys_path(spec_name))
    /\ UNCHANGED <<profile, homeDir, appRoot, pc, dirs, ways, fs, calls>>

LegacyKeysPath ==
    /\ pc = "ready"
    /\ \E testnet \in BOOLEAN :
          last' = Returned("legacy_keys_path", <<testnet>>, legacy_keys_path(testnet))
    /\ UNCHANGED <<profile, homeDir, appRoot, pc, dirs, ways, fs, calls>>

IpcPath ==
    /\ pc = "ready"
    /\ last' = Returned("ipc_path", <<>>, ipc_path)
    /\ UNCHANGED <<profile, homeDir, appRoot, pc, dirs, ways, fs, calls>>

DefaultPath ==
    /\ pc \in {"start", "ready"}
    /\ \/ last' = Returned("default_data_path", <<>>, default_data_path)
       \/ last' = Returned("default_local_path", <<>>, default_local_path)
       \/ last' = Returned("default_hypervisor_path", <<>>, default_hypervisor_path)
    /\ UNCHANGED <<profile, homeDir, appRoot, pc, dirs, ways, fs, calls>>

\* helpers::replace_home_and_local on a template; the helpers look the home
\* directory up, and without one the process panics.
ReplaceHomeAndLocal ==
    /\ pc \in {"start", "ready"}
    /\ \E b \in {DataRoot(PRODUCT), "$HOME/.parity"} :
       \E l \in {CacheRoot(PRODUCT), "$HOME/.parity"} :
       \E t \in Templates :
          IF homeDir = NoHome
              THEN /\ pc' = "aborted"
                   /\ last' = Panicked("replace_home_and_local", <<b, l, t>>, "home_dir")
              ELSE /\ pc' = pc
                   /\ last' = Returned("replace_home_and_local", <<b, l, t>>,
                                       replace_home_and_local(b, l, t))
    /\ UNCHANGED <<profile, homeDir, appRoot, dirs, ways, fs, calls>>

\* a free function that needs the home directory: it returns, or it panics
HomeCall(op, arg, r) ==
    /\ last' = IF r.kind = "panic" THEN Panicked(op, arg, r.val)
                                   ELSE Returned(op, arg, r.val)
    /\ pc' = IF r.kind = "panic" THEN "aborted" ELSE pc

Geth ==
    /\ pc \in {"start", "ready"}
    /\ \E testnet \in BOOLEAN : HomeCall("geth", <<testnet>>, geth(testnet))
    /\ UNCHANGED <<profile, homeDir, appRoot, dirs, ways, fs, calls>>

Parity ==
    /\ pc \in {"start", "ready"}
    /\ \E chain \in Chains : HomeCall("parity", <<chain>>, parity(chain))
    /\ UNCHANGED <<profile, homeDir, appRoot, dirs, ways, fs, calls>>

Next ==
    \/ Default
    \/ CreateDirs
    \/ KeysPath
    \/ LegacyKeysPath
    \/ IpcPath
    \/ DefaultPath
    \/ ReplaceHomeAndLocal
    \/ Geth
    \/ Parity

Spec == Init /\ [][Next]_vars

\* The path functions alone: they leave the file system as it is.
NextPaths ==
    \/ Default
    \/ KeysPath
    \/ LegacyKeysPath
    \/ IpcPath
    \/ DefaultPath
    \/ ReplaceHomeAndLocal
    \/ Geth
    \/ Parity

SpecPaths == Init /\ [][NextPaths]_vars

\* Construction and directory creation alone.
NextDirs ==
    \/ Default
    \/ CreateDirs

SpecDirs == Init /\ [][NextDirs]_vars

----------------------------------------------------------------------------
(* Properties *)

Tokens == {"$BASE", "$LOCAL", "$HOME"}

Contains(s, pat) == \E i \in 1..Len(s) : StartsAt(s, i, pat)

IsPrefix(p, s) == StartsAt(s, 1, p)

EndsWith(s, suf) == Len(suf) <= Len(s) /\ StartsAt(s, Len(s) - Len(suf) + 1, suf)

Called(op) == last.op = op /\ last.kind # "panic"

\* C1: once Directories::default() has returned, none of the seven fields
\* holds the literal $BASE, $LOCAL or $HOME, whatever the OS answered to the
\* two application-directory queries.
C1_NoUnresolvedToken ==
    pc = "ready" =>
        \A f \in FieldSet : \A t \in Tokens : ~Contains(dirs[f], t)

\* C2: when the OS application-directory query fails, default_data_path and
\* default_local_path return the home directory followed by /.parity, and
\* default_hypervisor_path the home directory followed by /.parity-hypervisor;
\* no error reaches the caller.
C2_FallbackUnderHome ==
    homeDir # NoHome =>
        /\ (last.op = "default_data_path" /\ ~appRoot["UserData"]) =>
               (last.kind = "value" /\ last.val = homeDir \o "/.parity")
        /\ (last.op = "default_local_path" /\ ~appRoot["UserCache"]) =>
               (last.kind = "value" /\ last.val = homeDir \o "/.parity")
        /\ (last.op = "default_hypervisor_path" /\ ~appRoot["UserData"]) =>
               (last.kind = "value" /\ last.val = homeDir \o "/.parity-hypervisor")

\* the creations a call with these flags is to make, in the order stated:
\* base, db, cache, keys, then signer, dapps, secretstore where enabled
Wanted(flags) ==
    LET on(f) == CASE f = "signer"      -> flags[2]
                   [] f = "dapps"       -> flags[1]
                   [] f = "secretstore" -> flags[3]
                   [] OTHER             -> TRUE
    IN  SelectSeq(Fields, on)

Range(q) == {q[i] : i \in 1..Len(q)}

\* C3: a create_dirs call in which no creation fails leaves base, db, cache
\* and keys in place, and each of signer, dapps, secretstore in place if its
\* flag is set; a directory whose flag is not set is not created by the call;
\* all that the call creates lies on the way to a directory it was to make.
C3_CreatesWhatFlagsSay ==
    (last.op = "create_dirs" /\ last.kind = "Ok") =>
        LET created == fs \ last.before
            wanted  == Range(Wanted(last.arg))
        IN  /\ \A f \in wanted : dirs[f] \in fs
            /\ \A f \in FieldSet \ wanted : dirs[f] \notin created
            /\ created \subseteq UNION {Ancestors(dirs[f]) : f \in wanted}
            /\ last.attempted = Wanted(last.arg)

C3_Witness ==
    /\ last.op = "create_dirs" /\ last.kind = "Ok"
    /\ last.arg = <<FALSE, TRUE, FALSE>>
    /\ {dirs.base, dirs.db, dirs.cache, dirs.keys, dirs.signer} \subseteq fs \ last.before
    /\ dirs.dapps \notin fs /\ dirs.secretstore \notin fs

\* C4: a create_dirs call in which a creation fails returns the OS error's
\* message; the creations it attempted are the first ones of its order, the
\* failed one last; the directories attempted before it exist, the failed one
\* does not, none after it is created, and nothing that existed is removed.
C4_FailFast ==
    (last.op = "create_dirs" /\ last.kind = "Err") =>
        LET order == Wanted(last.arg)
            n     == Len(last.attempted)
        IN  /\ last.val \in {to_string(e) : e \in OsErrors}
            /\ n >= 1 /\ n <= Len(order)
            /\ last.attempted = SubSeq(order, 1, n)
            /\ \A i \in 1..(n - 1) : dirs[order[i]] \in fs
            /\ dirs[order[n]] \notin fs
            /\ \A i \in (n + 1)..Len(order) :
                   dirs[order[i]] \in fs => dirs[order[i]] \in last.before
            /\ last.before \subseteq fs

C4_Witness ==
    /\ last.op = "create_dirs" /\ last.kind = "Err"
    /\ last.arg = <<TRUE, TRUE, TRUE>>
    /\ last.attempted = <<"base", "db", "cache", "keys", "signer">>
    /\ last.val = "Permission denied (os error 13)"
    /\ {dirs.base, dirs.db, dirs.cache, dirs.keys} \subseteq fs \ last.before
    /\ dirs.signer \notin fs /\ dirs.dapps \notin fs

\* C5: a create_dirs call that follows a successful call with the same flags
\* succeeds and leaves the set of existing directories as it was.
C5_Idempotent ==
    [][ ( /\ last.op = "create_dirs" /\ last.kind = "Ok"
          /\ calls' = calls + 1
          /\ last'.arg = last.arg )
        => (last'.kind = "Ok" /\ fs' = fs) ]_vars

C5_Witness ==
    /\ last.op = "create_dirs" /\ last.kind = "Ok"
    /\ calls = 2
    /\ last.arg = <<TRUE, TRUE, TRUE>>
    /\ last.before = fs
    /\ \A f \in FieldSet : dirs[f] \in fs

\* C6: Directories::default() yields db = root/chains and cache = root/cache,
\* root being the local path on the Windows profile and the data path on the
\* others; base is the data path and keys, signer, dapps, secretstore are the
\* data path followed by /keys, /signer, /dapps, /secretstore.
C6_DefaultLayout ==
    pc = "ready" =>
        LET data == default_data_path
            root == IF profile = "windows" THEN default_local_path ELSE data
        IN  /\ dirs.db = root \o "/chains"
            /\ dirs.cache = root \o "/cache"
            /\ dirs.base = data
            /\ dirs.keys = data \o "/keys"
            /\ dirs.signer = data \o "/signer"
            /\ dirs.dapps = data \o "/dapps"
            /\ dirs.secretstore = data \o "/secretstore"

C6_Witness ==
    /\ pc = "ready" /\ profile = "windows"
    /\ appRoot["UserData"] /\ appRoot["UserCache"]
    /\ dirs.db = "C:\\Users\\u\\AppData\\Local\\Parity\\Ethereum/chains"
    /\ dirs.keys = "C:\\Users\\u\\AppData\\Roaming\\Parity\\Ethereum/keys"

\* C7 as claimed: keys_path(spec_name) is keys, a path separator, spec_name,
\* for every non-empty spec_name.
C7_KeysPathAppends ==
    Called("keys_path") =>
        last.val = dirs.keys \o MAIN_SEPARATOR \o last.arg[1]

\* C7: keys_path(spec_name) is keys, a path separator, spec_name for every
\* non-empty relative spec_name, separators inside it or not; a spec_name
\* that starts with a path separator or (Windows) a drive prefix is not
\* appended but replaces the path: the result ends in spec_name, carries at
\* most the drive prefix of keys before it, and keys is no prefix of it.
C7_KeysPathRelative ==
    Called("keys_path") =>
        LET spec_name == last.arg[1]
        IN  IF has_prefix(spec_name) \/ has_root(spec_name)
                THEN /\ EndsWith(last.val, spec_name)
                     /\ Len(last.val) <= Len(spec_name) + 2
                     /\ ~IsPrefix(dirs.keys, last.val)
                ELSE last.val = dirs.keys \o MAIN_SEPARATOR \o spec_name

C7_Witness ==
    /\ Called("keys_path") /\ profile = "unix"
    /\ last.arg = <<"/abs">>
    /\ last.val = "/abs"

\* the template with every token in it replaced, in one pass
RECURSIVE SubstFrom(_, _, _, _)
SubstFrom(arg, i, base, local) ==
    IF i > Len(arg) THEN ""
    ELSE IF StartsAt(arg, i, "$BASE") THEN base \o SubstFrom(arg, i + 5, base, local)
    ELSE IF StartsAt(arg, i, "$LOCAL") THEN local \o SubstFrom(arg, i + 6, base, local)
    ELSE IF StartsAt(arg, i, "$HOME") THEN homeDir \o SubstFrom(arg, i + 5, base, local)
    ELSE SubSeq(arg, i, i) \o SubstFrom(arg, i + 1, base, local)

C9_NoHomeIsFatal ==
    /\ (last.op \in {"geth", "parity"} /\ homeDir = NoHome) =>
           (last.kind = "panic" /\ pc = "aborted")
    /\ pc = "aborted" => last.kind = "panic"

C9_Witness ==
    /\ last.op = "geth" /\ last.kind = "panic"
    /\ last.val = "Failed to get home dir"
    /\ pc = "aborted"

\* C10: legacy_keys_path(true) is base, a path separator, testnet_keys, and
\* legacy_keys_path(false) is base, a path separator, keys.
C10_LegacyKeysPath ==
    Called("legacy_keys_path") =>
        last.val = dirs.base \o MAIN_SEPARATOR
                       \o (IF last.arg[1] THEN "testnet_keys" ELSE "keys")

C10_Witness ==
    /\ Called("legacy_keys_path") /\ profile = "unix"
    /\ last.arg = <<TRUE>>
    /\ last.val = "/home/u/.local/share/io.parity.ethereum/testnet_keys"

====
